---------------------------- MODULE Spec2Model ----------------------------
(***************************************************************************)
(* A model of mongo-scripts/mongo-backup.py: main(), the curses checkbox   *)
(* selector (MongoBackupTool.checkbox_menu) and the backup orchestrator    *)
(* (backup_databases, run_mongodump, create_zip_archive).                  *)
(*                                                                         *)
(* Database names are integer codes ordered like the strings they stand    *)
(* for: 1, 2, 3 are 'admin', 'config', 'local'; larger codes are user      *)
(* databases.  Paths are sequences of components <<kind, value>>.          *)
(* Python values that may be None are records [tag, items].                *)
(*                                                                         *)
(* Environment assumptions: the terminal is wide enough for every line     *)
(* (only its height varies, frame by frame); os.makedirs succeeds; the     *)
(* dump subprocess ends in one of the three ways run_mongodump handles.    *)
(***************************************************************************)
EXTENDS Integers, Sequences, FiniteSets

(* ------------------------------ bounds -------------------------------- *)
\* largest number of names the server reply holds
MaxN == 3
\* number of user database names the server may hold
MaxUserDbs == 3
\* longest --databases argument list
MaxReq == 2
\* terminal heights offered to getmaxyx
MinHeight == 6
MaxHeight == 10
\* how far outside [0, N-1] the cursor is followed
MaxDrift == 2
\* files one dump invocation may leave in its directory
MaxFiles == 1
\* clock readings, counted from the first reading of a run
MaxClock == 1

(* --------------------------- Python values ---------------------------- *)
None == [tag |-> "None", items |-> <<>>]
Unbound == [tag |-> "unbound", items |-> <<>>]
List(s) == [tag |-> "list", items |-> s]
Str(p) == [tag |-> "str", items |-> p]

Max(a, b) == IF a >= b THEN a ELSE b
Min(a, b) == IF a <= b THEN a ELSE b
Range(s) == {s[i] : i \in 1..Len(s)}

\* sequences over S of length lo..hi
SeqsOf(S, lo, hi) == UNION {[1..n -> S] : n \in lo..hi}

\* sorted(xs) for a duplicate-free collection of integer codes
RECURSIVE Sorted(_)
Sorted(S) ==
    IF S = {} THEN <<>>
    ELSE LET m == CHOOSE x \in S : \A y \in S : x <= y
         IN <<m>> \o Sorted(S \ {m})

\* seq[a:b] with Python's slice rules (0-based, negative indices count
\* from the end, out-of-range indices are clipped)
PySliceIndex(i, n) == IF i < 0 THEN Max(i + n, 0) ELSE Min(i, n)
PySlice(s, a, b) ==
    LET lo == PySliceIndex(a, Len(s))
        hi == PySliceIndex(b, Len(s))
    IN IF lo < hi THEN SubSeq(s, lo + 1, hi) ELSE <<>>

\* seq[i] with Python's index rules: the 1-based position, or 0 for IndexError
PyIndex(i, n) ==
    IF i >= 0 /\ i < n THEN i + 1
    ELSE IF i < 0 /\ i >= -n THEN i + n + 1
    ELSE 0

(* ------------------------------ names --------------------------------- *)
system_dbs == {1, 2, 3}
\* names given with --databases: a reserved one and the first two user names
RequestNames == {3, 4, 5}

\* replies of list_database_names(): the reserved databases are all listed
\* or all hidden, followed by the first n user databases
ServerReplies ==
    {S \in {sys \cup (4..(3 + n)) : sys \in {{}, system_dbs}, n \in 0..MaxUserDbs} :
        Cardinality(S) <= MaxN}

Heights == MinHeight..MaxHeight

(* ------------------------------- keys --------------------------------- *)
QuitKeys == {"q", "Q", "ESC"}
ToggleKeys == {" "}
SelectAllKeys == {"a", "A"}
SelectNoneKeys == {"n", "N"}
UpKeys == {"KEY_UP", "k"}
DownKeys == {"KEY_DOWN", "j"}
PageUpKeys == {"KEY_PPAGE"}
PageDownKeys == {"KEY_NPAGE"}
EnterKeys == {"\n", "KEY_ENTER", "\r"}
OtherKeys == {"KEY_RESIZE"}

VARIABLES
    pc,                 \* position of main()
    exit_status,        \* process exit status, -1 while running
    args_databases,     \* --databases: None or a non-empty list
    args_list,          \* --list
    args_zip,           \* --zip
    args_all,           \* --all (exclude_system_dbs = ~args_all)
    databases,          \* result of get_databases()
    selected,           \* checkbox_menu: selection array
    current_row,        \* checkbox_menu: cursor
    height,             \* checkbox_menu: height of the frame on screen
    max_visible,        \* checkbox_menu: page size of the frame on screen
    scroll_offset,      \* checkbox_menu: scroll offset of the frame on screen
    key,                \* checkbox_menu: outcome of the last getch()
    prev_selected,      \* the selection array before the last key, if that was the toggle key
    selected_databases, \* main: the list handed to backup_databases
    timestamp,          \* backup_databases: clock reading of line 236
    idx,                \* backup_databases: number of databases looped over
    success_count,
    failed_dbs,
    attempts,           \* run_mongodump invocations so far: <<db, outcome>>
    fs_dirs,            \* directories on disk
    fs_files,           \* regular files on disk (outside any archive)
    walked,             \* create_zip_archive: files os.walk listed
    zip_time,           \* generate_human_readable_filename: its clock reading
    zip_path,           \* backup_databases: zip_path
    zip_file,           \* the archive on disk: None or its entries
    location,           \* backup_databases: the location the summary prints
    diagnostic,         \* main: the names the validation error lists
    clock,              \* generate_human_readable_filename: hour and minute of its clock reading
    filename,           \* generate_human_readable_filename: the name it returns
    out                 \* diagnostics printed so far

vars == <<pc, exit_status, args_databases, args_list, args_zip, args_all,
          databases, selected, current_row, height, max_visible,
          scroll_offset, key, prev_selected, selected_databases, timestamp,
          idx, success_count, failed_dbs, attempts, fs_dirs, fs_files,
          walked, zip_time, zip_path, zip_file, location, diagnostic, clock,
          filename, out>>

argVars == <<args_databases, args_list, args_zip, args_all>>
nameVars == <<clock, filename>>
menuVars == <<selected, current_row, height, max_visible, scroll_offset,
              key, prev_selected>>
backupVars == <<timestamp, idx, success_count, failed_dbs, attempts>>
diskVars == <<fs_dirs, fs_files, walked, zip_time, zip_path, zip_file,
              location>>

(* ------------------------------- paths -------------------------------- *)
output_dir == << <<"out", 0>> >>
Join(p, c) == Append(p, c)
DirName(p) == SubSeq(p, 1, Len(p) - 1)
IsPrefix(p, q) == Len(p) <= Len(q) /\ SubSeq(q, 1, Len(p)) = p

\* os.path.relpath(path, start)
RECURSIVE CommonLen(_, _)
CommonLen(p, q) ==
    IF p = <<>> \/ q = <<>> \/ Head(p) # Head(q) THEN 0
    ELSE 1 + CommonLen(Tail(p), Tail(q))
RelPath(path, start) ==
    LET c == CommonLen(path, start)
    IN [i \in 1..(Len(start) - c) |-> <<"up", 0>>] \o SubSeq(path, c + 1, Len(path))

BackupDir(ts) == Join(output_dir, <<"ts", ts>>)

(* -------------------------------- Init -------------------------------- *)
\* argparse: --databases has nargs='+', so it is None or non-empty
Init ==
    /\ pc = "start"
    /\ exit_status = -1
    /\ args_databases \in {None} \cup {List(s) : s \in SeqsOf(RequestNames, 1, MaxReq)}
    /\ args_list \in BOOLEAN
    /\ args_zip \in BOOLEAN
    /\ args_all \in BOOLEAN
    /\ databases = Unbound
    /\ selected = <<>>
    /\ current_row = 0
    /\ height = 0
    /\ max_visible = 0
    /\ scroll_offset = 0
    /\ key = "unbound"
    /\ prev_selected = <<>>
    /\ selected_databases = Unbound
    /\ timestamp = 0
    /\ idx = 0
    /\ success_count = 0
    /\ failed_dbs = <<>>
    /\ attempts = <<>>
    /\ fs_dirs = {}
    /\ fs_files = {}
    /\ walked = {}
    /\ zip_time = 0
    /\ zip_path = Unbound
    /\ zip_file = None
    /\ location = Unbound
    /\ diagnostic = Unbound
    /\ clock = Unbound
    /\ filename = Unbound
    /\ out = <<>>

\* sys.exit(code)
Exit(code) ==
    /\ pc' = "exit"
    /\ exit_status' = code

(* --------------------------- get_databases ---------------------------- *)
FilterSystem(reply) ==
    IF ~args_all THEN {db \in reply : db \notin system_dbs} ELSE reply

GetDatabases ==
    /\ pc = "start"
    /\ \E reply \in ServerReplies :
        /\ databases' = List(Sorted(FilterSystem(reply)))
        /\ pc' = "listed"
        /\ UNCHANGED <<exit_status, out>>
    /\ UNCHANGED <<argVars, nameVars, diagnostic, menuVars, selected_databases, backupVars, diskVars>>

\* ConnectionFailure, OperationFailure or any other exception
GetDatabasesFails ==
    /\ pc = "start"
    /\ Exit(1)
    /\ out' = Append(out, "error: lister")
    /\ UNCHANGED <<argVars, nameVars, diagnostic, databases, menuVars, selected_databases,
                   backupVars, diskVars>>

(* -------------------------------- main -------------------------------- *)
\* a main that goes on with an empty list
NoneFoundNever(dbs) == FALSE

\* line 347: not databases
NoneFound(dbs) == dbs = <<>>

NoDatabases ==
    /\ pc = "listed"
    /\ NoneFound(databases.items)
    /\ Exit(0)
    /\ out' = Append(out, "No databases found.")
    /\ UNCHANGED <<argVars, nameVars, diagnostic, databases, menuVars, selected_databases,
                   backupVars, diskVars>>

ListMode ==
    /\ pc = "listed"
    /\ ~NoneFound(databases.items)
    /\ args_list
    /\ Exit(0)
    /\ out' = Append(out, "Available databases")
    /\ UNCHANGED <<argVars, nameVars, diagnostic, databases, menuVars, selected_databases,
                   backupVars, diskVars>>

\* a validation that looks at the first requested name only
invalid_dbs_first ==
    SelectSeq(SubSeq(args_databases.items, 1, 1),
              LAMBDA db : db \notin Range(databases.items))

invalid_dbs ==
    SelectSeq(args_databases.items, LAMBDA db : db \notin Range(databases.items))

\* lines 365-366: the names not found, then the available databases
NotFoundReport(invalid, available) ==
    [tag |-> "report", items |-> <<invalid, available>>]

NonInteractive ==
    /\ pc = "listed"
    /\ ~NoneFound(databases.items)
    /\ ~args_list
    /\ args_databases # None
    /\ IF invalid_dbs # <<>>
       THEN /\ Exit(1)
            /\ out' = Append(out, "error: not found")
            /\ diagnostic' = NotFoundReport(invalid_dbs, databases.items)
            /\ UNCHANGED selected_databases
       ELSE /\ selected_databases' = args_databases
            /\ pc' = "backup"
            /\ UNCHANGED <<exit_status, out, diagnostic>>
    /\ UNCHANGED <<argVars, nameVars, databases, menuVars, backupVars, diskVars>>


(* --------------------------- checkbox_menu ---------------------------- *)
N == Len(databases.items)

start_row == 4
MaxVisible(h) == h - start_row - 3

\* the scroll offset of a frame (floor division, as Python's //)
ScrollOffset(cr, mv, n) ==
    IF cr < (mv \div 2) THEN 0
    ELSE IF cr > n - (mv \div 2) THEN Max(0, n - mv)
    ELSE cr - (mv \div 2)

VisibleDatabases(dbs, so, mv) == PySlice(dbs, so, so + mv)

\* screen rows one frame writes to: header, visible items, footer
FrameRows(h, nvis) ==
    {0, 1, 2} \cup {start_row + i : i \in 0..(nvis - 1)} \cup {h - 2, h - 1}

\* the frame is drawn without curses.error or IndexError
FrameOK(h, cr, sel, dbs) ==
    LET mv == MaxVisible(h)
        so == ScrollOffset(cr, mv, Len(dbs))
        nvis == Len(VisibleDatabases(dbs, so, mv))
    IN /\ \A y \in FrameRows(h, nvis) : y >= 0 /\ y < h
       /\ \A i \in 0..(nvis - 1) : PyIndex(i + so, Len(sel)) # 0

CursorRange == (0 - MaxDrift)..(N - 1 + MaxDrift)

\* the locals of checkbox_menu are gone once it has returned or raised
DropLocals(k) ==
    /\ selected' = <<>>
    /\ current_row' = 0
    /\ height' = 0
    /\ max_visible' = 0
    /\ scroll_offset' = 0
    /\ prev_selected' = <<>>
    /\ key' = k

\* an exception leaves checkbox_menu and curses.wrapper; main reports it
MenuRaises(k) ==
    /\ DropLocals(k)
    /\ Exit(1)
    /\ out' = Append(out, "error: interactive")
    /\ UNCHANGED selected_databases

\* checkbox_menu returns result to main
MenuReturns(k, result) ==
    /\ DropLocals(k)
    /\ selected_databases' = result
    /\ pc' = "returned"
    /\ UNCHANGED <<exit_status, out>>

\* the next pass of the while loop up to getch(): the terminal height is
\* read again and the frame is drawn for selection sel and cursor cr
ShowFrame(k, sel, cr) ==
    /\ cr \in CursorRange
    /\ \E h \in Heights :
        IF FrameOK(h, cr, sel, databases.items)
        THEN /\ pc' = "menu"
             /\ key' = k
             /\ prev_selected' = IF k \in ToggleKeys THEN selected ELSE <<>>
             /\ selected' = sel
             /\ current_row' = cr
             /\ height' = h
             /\ max_visible' = MaxVisible(h)
             /\ scroll_offset' = ScrollOffset(cr, MaxVisible(h), N)
             /\ UNCHANGED <<exit_status, out, selected_databases>>
        ELSE MenuRaises(k)

menuFrame == <<argVars, nameVars, diagnostic, databases, backupVars, diskVars>>

\* main enters interactive mode: curses.wrapper calls checkbox_menu
Interactive ==
    /\ pc = "listed"
    /\ ~NoneFound(databases.items)
    /\ ~args_list
    /\ args_databases = None
    /\ ShowFrame("unbound", [i \in 1..N |-> TRUE], 0)
    /\ UNCHANGED menuFrame

KeyQuit ==
    /\ pc = "menu"
    /\ \E k \in QuitKeys : MenuReturns(k, None)
    /\ UNCHANGED menuFrame

\* KeyboardInterrupt raised inside getch()
KeyInterrupt ==
    /\ pc = "menu"
    /\ MenuReturns("KeyboardInterrupt", None)
    /\ UNCHANGED menuFrame

\* a toggle that sets the entry instead of flipping it
ToggleSets(sel, cr) == [sel EXCEPT ![PyIndex(cr, Len(sel))] = TRUE]

\* a toggle that inverts the whole selection
ToggleAll(sel, cr) == [i \in 1..Len(sel) |-> ~sel[i]]

Toggle(sel, cr) ==
    [sel EXCEPT ![PyIndex(cr, Len(sel))] = ~sel[PyIndex(cr, Len(sel))]]

KeyToggle ==
    /\ pc = "menu"
    /\ \E k \in ToggleKeys :
        IF PyIndex(current_row, Len(selected)) = 0
        THEN MenuRaises(k)
        ELSE ShowFrame(k, Toggle(selected, current_row), current_row)
    /\ UNCHANGED menuFrame

\* a select-all that misses the last entry
SelectAllButLast(n) == [i \in 1..n |-> i < n]

SelectAll(n) == [i \in 1..n |-> TRUE]

KeySelectAll ==
    /\ pc = "menu"
    /\ \E k \in SelectAllKeys : ShowFrame(k, SelectAll(N), current_row)
    /\ UNCHANGED menuFrame

SelectNone(n) == [i \in 1..n |-> FALSE]

KeySelectNone ==
    /\ pc = "menu"
    /\ \E k \in SelectNoneKeys : ShowFrame(k, SelectNone(N), current_row)
    /\ UNCHANGED menuFrame

MoveUp(cr) == Max(0, cr - 1)

KeyUp ==
    /\ pc = "menu"
    /\ \E k \in UpKeys : ShowFrame(k, selected, MoveUp(current_row))
    /\ UNCHANGED menuFrame

MoveDown(cr, n) == Min(n - 1, cr + 1)

KeyDown ==
    /\ pc = "menu"
    /\ \E k \in DownKeys : ShowFrame(k, selected, MoveDown(current_row, N))
    /\ UNCHANGED menuFrame

PageUp(cr, mv) == Max(0, cr - mv)

KeyPageUp ==
    /\ pc = "menu"
    /\ \E k \in PageUpKeys : ShowFrame(k, selected, PageUp(current_row, max_visible))
    /\ UNCHANGED menuFrame

PageDown(cr, mv, n) == Min(n - 1, cr + mv)

KeyPageDown ==
    /\ pc = "menu"
    /\ \E k \in PageDownKeys :
        ShowFrame(k, selected, PageDown(current_row, max_visible, N))
    /\ UNCHANGED menuFrame

\* [db for idx, db in enumerate(databases) if selected[idx]]
RECURSIVE SelectedFrom(_, _, _)
SelectedFrom(dbs, sel, i) ==
    IF i > Len(dbs) THEN <<>>
    ELSE (IF sel[i] THEN <<dbs[i]>> ELSE <<>>) \o SelectedFrom(dbs, sel, i + 1)
\* a comprehension that skips the first entry
SelectedDbsSkipFirst(dbs, sel) == SelectedFrom(dbs, sel, 2)

SelectedDbs(dbs, sel) == SelectedFrom(dbs, sel, 1)

\* selected_dbs if selected_dbs else None
\* a result that hands an empty list back as it is
MenuResultAsIs(selected_dbs) == List(selected_dbs)

MenuResult(selected_dbs) ==
    IF selected_dbs # <<>> THEN List(selected_dbs) ELSE None

KeyEnter ==
    /\ pc = "menu"
    /\ \E k \in EnterKeys :
        MenuReturns(k, MenuResult(SelectedDbs(databases.items, selected)))
    /\ UNCHANGED menuFrame

\* any other key falls through the elif chain
KeyOther ==
    /\ pc = "menu"
    /\ \E k \in OtherKeys : ShowFrame(k, selected, current_row)
    /\ UNCHANGED menuFrame

\* a main that goes on to the backup after a cancelled selection
CancelledGoesOn ==
    /\ pc = "returned"
    /\ selected_databases = None
    /\ pc' = "backup"
    /\ UNCHANGED <<exit_status, out, argVars, nameVars, diagnostic, databases, menuVars,
                   selected_databases, backupVars, diskVars>>

\* main after curses.wrapper returned
Cancelled ==
    /\ pc = "returned"
    /\ selected_databases = None
    /\ Exit(0)
    /\ out' = Append(out, "Backup cancelled.")
    /\ UNCHANGED <<argVars, nameVars, diagnostic, databases, menuVars, selected_databases,
                   backupVars, diskVars>>

Confirmed ==
    /\ pc = "returned"
    /\ selected_databases # None
    /\ pc' = "backup"
    /\ key' = "unbound"
    /\ UNCHANGED <<exit_status, out, argVars, nameVars, diagnostic, databases, selected, current_row,
                   height, max_visible, scroll_offset, prev_selected,
                   selected_databases, backupVars, diskVars>>


(* -------------------------- backup_databases -------------------------- *)
create_zip == args_zip
backup_dir == BackupDir(timestamp)
mainVars == <<argVars, nameVars, diagnostic, databases, menuVars, selected_databases>>

\* lines 230-246: the guard, the clock reading and the counters
StartBackup ==
    /\ pc = "backup"
    /\ IF selected_databases.items = <<>>
       THEN /\ Exit(0)
            /\ out' = Append(out, "No databases selected for backup.")
            /\ UNCHANGED backupVars
       ELSE /\ timestamp' = 0
            /\ success_count' = 0
            /\ failed_dbs' = <<>>
            /\ idx' = 0
            /\ pc' = "dump"
            /\ UNCHANGED <<exit_status, out, attempts>>
    /\ UNCHANGED <<mainVars, diskVars>>

\* every prefix of path becomes a directory (os.makedirs, exist_ok=True)
MakeDirs(dirs, path) == dirs \cup {SubSeq(path, 1, n) : n \in 1..Len(path)}

OutputPath(database, ts) == Join(Join(output_dir, <<"ts", ts>>), <<"db", database>>)

DumpOutcomes == {"ok", "CalledProcessError", "FileNotFoundError"}

\* the files the dump subprocess leaves under output_path
DumpFiles(output_path, outcome, k) ==
    IF outcome = "FileNotFoundError" THEN {}
    ELSE {Join(output_path, <<"file", f>>) : f \in 1..k}

\* a run_mongodump that reports a missing tool as a success
DumpResultMissingOk(outcome) == outcome # "CalledProcessError"

\* the return value of run_mongodump
DumpResult(outcome) == outcome = "ok"

\* a run_mongodump that keeps its errors to itself
DumpDiagnosticsSilent(outcome) == <<>>

\* what run_mongodump prints to stderr
DumpDiagnostics(outcome) ==
    IF outcome = "CalledProcessError" THEN <<"error: dump failed">>
    ELSE IF outcome = "FileNotFoundError" THEN <<"error: mongodump not found">>
    ELSE <<>>

\* a loop that stops one database early
LoopNextSkipsLast(i, n) == IF i + 2 < n THEN "dump" ELSE "archive"

\* after the body for one database: the next database, or the end of the loop
LoopNext(i, n) == IF i + 1 < n THEN "dump" ELSE "archive"

\* one pass of `for db in databases` (lines 248-252) with its call of
\* run_mongodump (lines 197-228)
RunMongodump ==
    /\ pc = "dump"
    /\ idx < Len(selected_databases.items)
    /\ LET db == selected_databases.items[idx + 1]
           output_path == OutputPath(db, timestamp)
       IN \E outcome \in DumpOutcomes, k \in 0..MaxFiles :
            /\ fs_dirs' = MakeDirs(fs_dirs, output_path)
            /\ fs_files' = fs_files \cup DumpFiles(output_path, outcome, k)
            /\ attempts' = Append(attempts, <<db, outcome>>)
            /\ out' = out \o DumpDiagnostics(outcome)
            /\ IF DumpResult(outcome)
               THEN /\ success_count' = success_count + 1
                    /\ UNCHANGED failed_dbs
               ELSE /\ failed_dbs' = Append(failed_dbs, db)
                    /\ UNCHANGED success_count
            /\ idx' = idx + 1
            /\ pc' = LoopNext(idx, Len(selected_databases.items))
    /\ UNCHANGED <<exit_status, mainVars, timestamp, walked, zip_time,
                   zip_path, zip_file, location>>

\* an archive step that does not look at the success count
ArchiveWantedAnyway(cz, successes) == cz

\* line 256
ArchiveWanted(cz, successes) == cz /\ successes > 0

SkipArchive ==
    /\ pc = "archive"
    /\ ~ArchiveWanted(create_zip, success_count)
    /\ zip_path' = None
    /\ pc' = "summary"
    /\ UNCHANGED <<exit_status, mainVars, backupVars, fs_dirs, fs_files,
                   walked, zip_time, zip_file, location, out>>

\* a set as a sequence, in some fixed order (directory listing order)
RECURSIVE SeqOfSet(_)
SeqOfSet(S) ==
    IF S = {} THEN <<>>
    ELSE LET x == CHOOSE y \in S : TRUE
         IN <<x>> \o SeqOfSet(S \ {x})

\* the regular files os.walk(source_dir) lists
WalkFiles(files, source_dir) == {f \in files : IsPrefix(source_dir, f)}

\* an archive name taken relative to source_dir itself
ArcNameInside(file_path, source_dir) == RelPath(file_path, source_dir)

\* os.path.relpath(file_path, os.path.dirname(source_dir))
ArcName(file_path, source_dir) == RelPath(file_path, DirName(source_dir))

ZipFileName(t) == <<"zip", t>>

\* a cleanup that runs whatever create_zip_archive returned
AfterArchiveAlways(zp) == "cleanup"

\* line 260: the cleanup runs only if create_zip_archive returned a path
AfterArchive(zp) == IF zp # None THEN "cleanup" ELSE "summary"
Zip(entries) == [tag |-> "zip", items |-> entries]

\* where a pass over n files may be cut short by an exception: at its first
\* file or at its last
FailPoints(n) == {0, Max(n - 1, 0)}

\* lines 256-258 with create_zip_archive (lines 176-195); the archive is
\* written completely, or an exception ends the writing after written
\* entries (or before the file is opened)
CreateZipArchive ==
    /\ pc = "archive"
    /\ ArchiveWanted(create_zip, success_count)
    /\ \E now \in timestamp..MaxClock :
        LET zip_filename == ZipFileName(now)
            zp == Join(output_dir, zip_filename)
            files == SeqOfSet(WalkFiles(fs_files, backup_dir))
            entries == [i \in 1..Len(files) |-> ArcName(files[i], backup_dir)]
        IN /\ zip_time' = now
           /\ walked' = WalkFiles(fs_files, backup_dir)
           /\ \/ /\ zip_file' = Zip(entries)
                 /\ zip_path' = Str(zp)
                 /\ out' = Append(out, "Creating zip archive")
              \/ /\ \/ UNCHANGED zip_file
                    \/ \E written \in FailPoints(Len(entries)) :
                         zip_file' = Zip(SubSeq(entries, 1, written))
                 /\ zip_path' = None
                 /\ out' = out \o <<"Creating zip archive", "error: zip">>
           /\ pc' = AfterArchive(zip_path')
    /\ UNCHANGED <<exit_status, mainVars, backupVars, fs_dirs, fs_files, location>>

\* what is left of a set of paths once the tree under dir is removed
RmTree(paths, dir) == {p \in paths : ~IsPrefix(dir, p)}

\* lines 260-268: shutil.rmtree removes the tree, or raises after removing
\* some of its files
Cleanup ==
    /\ pc = "cleanup"
    /\ \/ /\ fs_files' = RmTree(fs_files, backup_dir)
          /\ fs_dirs' = RmTree(fs_dirs, backup_dir)
          /\ UNCHANGED out
       \/ /\ LET files == SeqOfSet(WalkFiles(fs_files, backup_dir))
             IN \E removed \in FailPoints(Len(files)) :
                  fs_files' = fs_files \ {files[i] : i \in 1..removed}
          /\ UNCHANGED fs_dirs
          /\ out' = Append(out, "warning: cleanup")
    /\ pc' = "summary"
    /\ UNCHANGED <<exit_status, mainVars, backupVars, walked, zip_time,
                   zip_path, zip_file, location>>

\* a summary that always reports the timestamp directory
LocationDirOnly(cz, zp, dir) == Str(dir)

\* lines 277-280
Location(cz, zp, dir) == IF cz /\ zp # None THEN zp ELSE Str(dir)

\* lines 270-281, then main returns
Summary ==
    /\ pc = "summary"
    /\ location' = Location(create_zip, zip_path, backup_dir)
    /\ out' = Append(out, "summary")
    /\ Exit(0)
    /\ UNCHANGED <<mainVars, backupVars, fs_dirs, fs_files, walked, zip_time,
                   zip_path, zip_file>>

Next ==
    \/ GetDatabases
    \/ GetDatabasesFails
    \/ NoDatabases
    \/ ListMode
    \/ NonInteractive
    \/ Interactive
    \/ KeyQuit
    \/ KeyInterrupt
    \/ KeyToggle
    \/ KeySelectAll
    \/ KeySelectNone
    \/ KeyUp
    \/ KeyDown
    \/ KeyPageUp
    \/ KeyPageDown
    \/ KeyEnter
    \/ KeyOther
    \/ Cancelled
    \/ Confirmed
    \/ StartBackup
    \/ RunMongodump
    \/ SkipArchive
    \/ CreateZipArchive
    \/ Cleanup
    \/ Summary

Spec == Init /\ [][Next]_vars

(* ------------------ generate_human_readable_filename ------------------ *)
\* In Spec the clock reading of line 153 is the single number zip_time and
\* the name is ZipFileName(zip_time).  NameSpec takes the function on its
\* own: the reading has an hour and a minute, and the name is built from
\* them as lines 157-174 build it.  Month, day and year are copied into
\* the name as they are read and are left out.
Hours == 0..23
Minutes == 0..59
Time(h, m) == [tag |-> "time", items |-> <<h, m>>]
Name(h12, mm, p) == [tag |-> "name", items |-> <<h12, mm, p>>]

\* a conversion by remainder, which has no hour 12
hour_12_mod(hour) == hour % 12

\* lines 161-172
hour_12(hour) ==
    IF hour = 0 THEN 12
    ELSE IF hour < 12 THEN hour
    ELSE IF hour = 12 THEN 12
    ELSE hour - 12

period(hour) ==
    IF hour = 0 THEN "am"
    ELSE IF hour < 12 THEN "am"
    ELSE IF hour = 12 THEN "pm"
    ELSE "pm"

\* the decimal digits of a natural number, most significant first
RECURSIVE Digits(_)
Digits(n) == IF n < 10 THEN <<n>> ELSE Digits(n \div 10) \o <<n % 10>>

\* zeros in front up to width digits
RECURSIVE ZeroPad(_, _)
ZeroPad(ds, width) ==
    IF Len(ds) >= width THEN ds ELSE ZeroPad(<<0>> \o ds, width)

\* the format specification 02d of line 174
Format02d(n) == ZeroPad(Digits(n), 2)

NameInit ==
    /\ pc = "filename"
    /\ exit_status = -1
    /\ args_databases = None
    /\ args_list = FALSE
    /\ args_zip = TRUE
    /\ args_all = FALSE
    /\ databases = Unbound
    /\ selected = <<>>
    /\ current_row = 0
    /\ height = 0
    /\ max_visible = 0
    /\ scroll_offset = 0
    /\ key = "unbound"
    /\ prev_selected = <<>>
    /\ selected_databases = Unbound
    /\ timestamp = 0
    /\ idx = 0
    /\ success_count = 0
    /\ failed_dbs = <<>>
    /\ attempts = <<>>
    /\ fs_dirs = {}
    /\ fs_files = {}
    /\ walked = {}
    /\ zip_time = 0
    /\ zip_path = Unbound
    /\ zip_file = None
    /\ location = Unbound
    /\ diagnostic = Unbound
    /\ clock \in {Time(h, m) : h \in Hours, m \in Minutes}
    /\ filename = Unbound
    /\ out = <<>>

\* lines 151-174
GenerateHumanReadableFilename ==
    /\ pc = "filename"
    /\ LET hour == clock.items[1]
           minute == clock.items[2]
       IN filename' = Name(hour_12(hour), Format02d(minute), period(hour))
    /\ pc' = "named"
    /\ UNCHANGED <<exit_status, argVars, diagnostic, databases, menuVars,
                   selected_databases, backupVars, diskVars, clock, out>>

NameNext == GenerateHumanReadableFilename

NameSpec == NameInit /\ [][NameNext]_vars


(* ============================== claims ================================ *)

\* C1: in checkbox_menu the cursor current_row is in [0, N-1] after every
\* key, for every N >= 1, every terminal height and every key sequence.
\* (As stated; the code breaks it on terminals lower than 7 rows, where
\* max_visible is negative and the page keys move the cursor the wrong way.)
C1_CursorInRange ==
    pc = "menu" => (current_row >= 0 /\ current_row <= N - 1)

\* C2: the select-all key followed immediately by Enter makes checkbox_menu
\* return exactly all N database names in the original order, from any
\* selector state.
C2_SelectAllThenEnter ==
    [][(pc = "menu" /\ key \in SelectAllKeys /\ key' \in EnterKeys)
        => (pc' = "returned" /\ selected_databases' = List(databases.items))]_vars

\* the select-all key was handled with the cursor moved off the first row
\* of a list of three
C2_Witness ==
    /\ pc = "menu"
    /\ key \in SelectAllKeys
    /\ N = 3
    /\ current_row = 2
    /\ selected = <<TRUE, TRUE, TRUE>>

\* C3: the select-none key followed immediately by Enter makes
\* checkbox_menu return None, and checkbox_menu never returns an empty list.
C3_SelectNoneThenEnter ==
    [][/\ (pc = "menu" /\ key \in SelectNoneKeys /\ key' \in EnterKeys)
            => (pc' = "returned" /\ selected_databases' = None)
       /\ pc' = "returned" => selected_databases' # List(<<>>)]_vars

\* Enter was pressed with nothing selected and None came back
C3_Witness ==
    /\ pc = "returned"
    /\ key \in EnterKeys
    /\ selected_databases = None
    /\ N >= 2

\* position of name x in the duplicate-free list dbs
PosIn(dbs, x) == CHOOSE i \in 1..Len(dbs) : dbs[i] = x

\* r holds exactly the names of dbs whose entry in sel is true, each once,
\* in the order of dbs
ExactlySelected(r, dbs, sel) ==
    /\ Len(r) = Cardinality({i \in 1..Len(dbs) : sel[i]})
    /\ \A j \in 1..Len(r) : r[j] \in Range(dbs) /\ sel[PosIn(dbs, r[j])]
    /\ \A j, k \in 1..Len(r) : j < k => PosIn(dbs, r[j]) < PosIn(dbs, r[k])

\* C4: with at least one entry selected, Enter ends the selector loop and
\* returns exactly the names databases[i] with selected[i] true, each once,
\* in the original order.
C4_EnterReturnsSelected ==
    [][(pc = "menu" /\ key' \in EnterKeys /\ \E i \in 1..N : selected[i])
        => /\ pc' = "returned"
           /\ selected_databases'.tag = "list"
           /\ ExactlySelected(selected_databases'.items, databases.items, selected)]_vars

\* Enter returned a proper, non-empty part of a list of three
C4_Witness ==
    /\ pc = "returned"
    /\ key \in EnterKeys
    /\ N = 3
    /\ selected_databases.tag = "list"
    /\ Len(selected_databases.items) = 2

\* C5: pressing the toggle key twice in a row, with the cursor on the same
\* item, leaves the whole selection array as it was before the first press.
C5_ToggleTwice ==
    [][(pc = "menu" /\ key \in ToggleKeys /\ key' \in ToggleKeys /\ pc' = "menu")
        => selected' = prev_selected]_vars

\* a toggle has just turned an entry of a partly selected list back on
C5_Witness ==
    /\ pc = "menu"
    /\ key \in ToggleKeys
    /\ N = 3
    /\ current_row = 1
    /\ prev_selected = <<TRUE, FALSE, FALSE>>
    /\ selected = <<TRUE, TRUE, FALSE>>

\* backup_databases has printed its summary and main has ended
BackupDone == pc = "exit" /\ location # Unbound

\* C6: a quit key (q, Q, ESC) or an interrupt raised while waiting for a
\* key ends the loop with None, whatever the selection; main then exits
\* with status 0, and no dump, archive or directory creation ever happens
\* in that run (nothing runs after the exit).
C6_QuitCancels ==
    [][/\ (pc = "menu" /\ key' \in QuitKeys \cup {"KeyboardInterrupt"})
            => (pc' = "returned" /\ selected_databases' = None)
       /\ (pc = "returned" /\ selected_databases = None)
            => /\ pc' = "exit"
               /\ exit_status' = 0
               /\ attempts' = <<>>
               /\ fs_dirs' = {}
               /\ fs_files' = {}
               /\ zip_file' = None
       /\ pc # "exit"]_vars

\* the run has ended with status 0 after a quit key or an interrupt, with
\* nothing on disk
C6_Witness ==
    /\ pc = "exit"
    /\ exit_status = 0
    /\ key \in QuitKeys \cup {"KeyboardInterrupt"}
    /\ selected_databases = None
    /\ N = 3
    /\ fs_dirs = {}

\* the databases of the failing invocations, in the order of the calls
FailedOf(log) ==
    LET f == SelectSeq(log, LAMBDA a : a[2] # "ok")
    IN [i \in 1..Len(f) |-> f[i][1]]

\* C7: backup_databases attempts every database of its list exactly once,
\* in list order, whatever the outcome of earlier dumps; from the end of
\* the loop on, success_count + len(failed_dbs) = len(databases) and
\* failed_dbs is exactly the databases whose invocation failed, in order.
C7_AllAttempted ==
    (pc \in {"dump", "archive", "cleanup", "summary"} \/ BackupDone) =>
        /\ idx = Len(attempts)
        /\ Len(attempts) <= Len(selected_databases.items)
        /\ \A i \in 1..Len(attempts) : attempts[i][1] = selected_databases.items[i]
        /\ pc # "dump" => Len(attempts) = Len(selected_databases.items)
        /\ success_count = Cardinality({i \in 1..Len(attempts) : attempts[i][2] = "ok"})
        /\ failed_dbs = FailedOf(attempts)
        /\ success_count + Len(failed_dbs) = Len(attempts)

\* three databases, the second dump exits nonzero: two successes, one
\* failure naming the second, and the third was still attempted
C7_Witness ==
    /\ pc = "summary"
    /\ Len(selected_databases.items) = 3
    /\ Len(attempts) = 3
    /\ attempts[1][2] = "ok"
    /\ attempts[2][2] = "CalledProcessError"
    /\ attempts[3][2] = "ok"
    /\ success_count = 2
    /\ failed_dbs = <<selected_databases.items[2]>>

\* C8: the uncompressed timestamp directory is deleted only after an
\* archive was requested and create_zip_archive returned a path; if
\* archiving was not requested, no database succeeded or the archive could
\* not be written, the directory is there at the end of the run.
C8_DeleteOnlyAfterArchive ==
    [][/\ (~(fs_files \subseteq fs_files') \/ ~(fs_dirs \subseteq fs_dirs'))
            => /\ args_zip
               /\ success_count > 0
               /\ zip_path.tag = "str"
               /\ zip_file.tag = "zip"
       /\ (BackupDone' /\ (~args_zip \/ success_count' = 0 \/ zip_path' = None))
            => /\ backup_dir' \in fs_dirs'
               /\ \A i \in 1..Len(attempts') :
                    OutputPath(attempts'[i][1], timestamp') \in fs_dirs']_vars

\* a run with --zip whose archive could not be written has ended with the
\* directory and its files still on disk
C8_Witness ==
    /\ BackupDone
    /\ args_zip
    /\ success_count > 0
    /\ zip_path = None
    /\ backup_dir \in fs_dirs
    /\ fs_files # {}

\* the archive holds one entry per file of tree, named by the file's path
\* below output_dir, so that the timestamp folder is the top-level entry
ArchiveHolds(tree) ==
    /\ zip_file.tag = "zip"
    /\ Len(zip_file.items) = Cardinality(tree)
    /\ \A f \in tree : \E i \in 1..Len(zip_file.items) :
            zip_file.items[i] = SubSeq(f, Len(output_dir) + 1, Len(f))
    /\ \A i \in 1..Len(zip_file.items) : zip_file.items[i][1] = <<"ts", timestamp>>

CleanupWarned == "warning: cleanup" \in Range(out)

\* C9 as stated: after a run with the archive flag in which every dump and
\* the archive succeeded, the timestamp directory no longer exists and the
\* archive holds exactly one entry per regular file of the tree.
C9_AsStated ==
    (BackupDone /\ args_zip /\ failed_dbs = <<>> /\ zip_path.tag = "str")
        => (backup_dir \notin fs_dirs /\ ArchiveHolds(walked))

\* C9, amended: when the archive was written, it holds exactly one entry
\* per regular file that was in the timestamp directory tree, named
\* relative to the parent of that directory; the directory no longer exists
\* after the run unless its deletion failed, in which case a warning was
\* printed and the directory is still there.
C9_ArchiveThenDelete ==
    /\ (pc = "cleanup" /\ zip_path.tag = "str")
        => (walked = fs_files /\ ArchiveHolds(fs_files))
    /\ (pc \in {"summary", "exit"} /\ zip_path.tag = "str")
        => /\ ArchiveHolds(walked)
           /\ ~CleanupWarned =>
                /\ backup_dir \notin fs_dirs
                /\ \A f \in fs_files : ~IsPrefix(backup_dir, f)
           /\ CleanupWarned => backup_dir \in fs_dirs

\* a run with --zip in which every dump succeeded ended with the archive
\* of several files and no timestamp directory
C9_Witness ==
    /\ BackupDone
    /\ args_zip
    /\ zip_path.tag = "str"
    /\ Len(zip_file.items) >= 2
    /\ backup_dir \notin fs_dirs
    /\ failed_dbs = <<>>

ArchiveStarted == "Creating zip archive" \in Range(out)

\* C10: the archiving step is executed if and only if archiving was
\* requested and at least one dump succeeded, and it starts only after
\* every database of the list was attempted; with zero successes no
\* archive file is created and nothing is deleted.
C10_ArchiveIff ==
    [][/\ (~ArchiveStarted /\ ArchiveStarted')
            => /\ pc = "archive"
               /\ args_zip
               /\ success_count > 0
               /\ Len(attempts) = Len(selected_databases.items)
       /\ pc = "archive"
            => (ArchiveStarted' <=> (args_zip /\ success_count > 0))
       /\ (pc \in {"dump", "archive", "cleanup", "summary"} /\ success_count' = 0)
            => /\ zip_file' = None
               /\ ~ArchiveStarted'
               /\ fs_files \subseteq fs_files'
               /\ fs_dirs \subseteq fs_dirs']_vars

\* a run with --zip in which every dump failed has ended without archive
C10_Witness ==
    /\ BackupDone
    /\ args_zip
    /\ success_count = 0
    /\ Len(attempts) >= 2
    /\ zip_file = None
    /\ ~ArchiveStarted
    /\ backup_dir \in fs_dirs

\* some name given with --databases is not in the lister's list
SomeNameUnknown ==
    /\ args_databases # None
    /\ databases.tag = "list"
    /\ \E i \in 1..Len(args_databases.items) :
            args_databases.items[i] \notin Range(databases.items)

\* the step ends the run with status 1, nothing dumped or created, and the
\* report names the requested names that are not in the list, in the order
\* given, and the whole list
RejectedWithReport ==
    /\ pc' = "exit"
    /\ exit_status' = 1
    /\ attempts' = <<>>
    /\ fs_dirs' = {}
    /\ fs_files' = {}
    /\ diagnostic'.tag = "report"
    /\ diagnostic'.items[2] = databases.items
    /\ LET invalid == diagnostic'.items[1]
           given == args_databases.items
       IN /\ invalid # <<>>
          /\ Range(invalid) = Range(given) \ Range(databases.items)
          /\ Len(invalid) = Cardinality({i \in 1..Len(given) :
                                given[i] \notin Range(databases.items)})

\* C11 as stated: with --databases given (and not --list), a requested name
\* that is not in the list the lister returned ends the run with status 1,
\* before any dump and any directory, with the not-found names and all
\* valid names in the diagnostic.
C11_AsStated ==
    [][(pc = "listed" /\ ~args_list /\ SomeNameUnknown) => RejectedWithReport]_vars

\* C11, amended: when the lister's list is not empty and --list is not
\* given, a requested name that is not in the list ends the run with status
\* 1 before any dump and any directory, with the not-found names and all
\* valid names in the diagnostic; when the list is empty or --list is given
\* the run ends with status 0 before the names are looked at; in every
\* case a dump begins only when every requested name is in the list.
C11_RejectUnknown ==
    [][/\ (pc = "listed" /\ ~args_list /\ databases.items # <<>> /\ SomeNameUnknown)
            => RejectedWithReport
       /\ (pc = "listed" /\ (args_list \/ databases.items = <<>>))
            => (pc' = "exit" /\ exit_status' = 0 /\ attempts' = <<>> /\ fs_dirs' = {})
       /\ ((attempts' # <<>> \/ fs_dirs' # {}) /\ args_databases # None)
            => \A i \in 1..Len(args_databases.items) :
                    args_databases.items[i] \in Range(databases.items)]_vars

\* two names were requested, the second of them unknown: the run was
\* rejected with that name and the list in the report
C11_Witness ==
    /\ pc = "exit"
    /\ exit_status = 1
    /\ diagnostic.tag = "report"
    /\ Len(args_databases.items) = 2
    /\ diagnostic.items[1] = <<args_databases.items[2]>>
    /\ args_databases.items[1] \in Range(databases.items)
    /\ fs_dirs = {}

\* every invocation so far found no mongodump executable
ToolMissing ==
    /\ attempts # <<>>
    /\ \A i \in 1..Len(attempts) : attempts[i][2] = "FileNotFoundError"

\* how many times line m was printed
Printed(m) == Cardinality({i \in 1..Len(out) : out[i] = m})

InBackup == pc \in {"dump", "archive", "cleanup", "summary"}

\* C12: with the dump executable absent, every database of the list is
\* still attempted exactly once, in order and without retry, each is
\* recorded as failed with the tool-not-installed reason, success_count
\* stays 0, no archive is created even when requested, and the run goes on
\* to the final summary instead of ending early.
C12_ToolMissing ==
    [][((InBackup' \/ BackupDone') /\ ToolMissing')
        => /\ success_count' = 0
           /\ failed_dbs' = SubSeq(selected_databases.items, 1, Len(attempts'))
           /\ \A i \in 1..Len(attempts') :
                attempts'[i][1] = selected_databases.items[i]
           /\ Printed("error: mongodump not found")' = Len(attempts')
           /\ zip_file' = None
           /\ ~ArchiveStarted'
           /\ pc' # "cleanup"
           /\ pc' # "dump" => Len(attempts') = Len(selected_databases.items)
           /\ pc' = "exit" => /\ pc = "summary"
                              /\ exit_status' = 0
                              /\ out'[Len(out')] = "summary"]_vars

\* a run with --zip over three databases has ended with every invocation
\* finding no executable
C12_Witness ==
    /\ BackupDone
    /\ args_zip
    /\ ToolMissing
    /\ Len(attempts) = 3
    /\ Len(failed_dbs) = 3
    /\ zip_file = None

\* the archive step ran and create_zip_archive returned a path
ArchiveSucceeded == ArchiveStarted /\ "error: zip" \notin Range(out)

\* path is a directory or a file on disk
ExistsOnDisk(path) ==
    \/ path \in fs_dirs
    \/ path \in fs_files
    \/ zip_file # None /\ path = Join(output_dir, ZipFileName(zip_time))

\* C13: the location reported by the summary is the archive path exactly
\* when archiving was requested and succeeded, otherwise it is the path of
\* the timestamp directory; the reported location exists on disk at the end
\* of the run.
C13_Location ==
    BackupDone =>
        /\ location.tag = "str"
        /\ IF args_zip /\ ArchiveSucceeded
           THEN location.items = Join(output_dir, ZipFileName(zip_time))
           ELSE location.items = backup_dir
        /\ location.items # backup_dir <=> (args_zip /\ ArchiveSucceeded)
        /\ ExistsOnDisk(location.items)

\* a run with --zip has ended reporting the archive, the timestamp
\* directory being gone
C13_Witness ==
    /\ BackupDone
    /\ args_zip
    /\ ArchiveSucceeded
    /\ location = zip_path
    /\ backup_dir \notin fs_dirs
    /\ failed_dbs # <<>>

\* the lines printed for the non-fatal errors of a backup run
NonFatalDiagnostics ==
    {"error: dump failed", "error: mongodump not found", "error: zip",
     "warning: cleanup"}

\* how many invocations ended with outcome o
Outcomes(o) == Cardinality({i \in 1..Len(attempts) : attempts[i][2] = o})

\* C14 as stated: no diagnostic for a non-fatal error is printed before the
\* summary block.
C14_AsStated ==
    \A i \in 1..Len(out) :
        out[i] \in NonFatalDiagnostics
            => \E j \in 1..i : out[j] = "summary"

\* C14, amended: a non-fatal error does not end the run, and its diagnostic
\* is printed at the moment it occurs, before the summary block: one line
\* per failed dump as soon as the dump has failed, the archive error before
\* the summary, the cleanup warning before the summary; the failed
\* databases are accumulated and the summary block is the last thing
\* printed.
C14_ReportedAtOnce ==
    /\ Printed("error: dump failed") = Outcomes("CalledProcessError")
    /\ Printed("error: mongodump not found") = Outcomes("FileNotFoundError")
    /\ Len(failed_dbs) =
         Outcomes("CalledProcessError") + Outcomes("FileNotFoundError")
    /\ \A i \in 1..Len(out) : out[i] = "summary" => i = Len(out)
    /\ "error: zip" \in Range(out) => (zip_path = None /\ pc \in {"summary", "exit"})
    /\ "warning: cleanup" \in Range(out) => pc \in {"summary", "exit"}
    /\ (pc = "exit" /\ \E i \in 1..Len(out) : out[i] \in NonFatalDiagnostics)
        => (BackupDone /\ exit_status = 0 /\ out[Len(out)] = "summary")

\* a run has ended whose output has a dump error, then an archive error,
\* then the summary
C14_Witness ==
    /\ BackupDone
    /\ \E i, j, k \in 1..Len(out) :
         /\ i < j /\ j < k
         /\ out[i] = "error: dump failed"
         /\ out[j] = "error: zip"
         /\ out[k] = "summary"

\* C15: for every hour of day h in 0..23 and every minute m in 0..59 the
\* generated name has hour_12 in 1..12, with h = 0 giving 12 am, h in 1..11
\* giving h am, h = 12 giving 12 pm and h in 13..23 giving h - 12 pm, so
\* the period is am exactly when h < 12, and the minute is written as
\* exactly two decimal digits with a zero in front where needed.
C15_TwelveHour ==
    pc = "named" =>
        LET h == clock.items[1]
            m == clock.items[2]
            h12 == filename.items[1]
            mm == filename.items[2]
            p == filename.items[3]
        IN /\ h12 \in 1..12
           /\ h = 0 => (h12 = 12 /\ p = "am")
           /\ h \in 1..11 => (h12 = h /\ p = "am")
           /\ h = 12 => (h12 = 12 /\ p = "pm")
           /\ h \in 13..23 => (h12 = h - 12 /\ p = "pm")
           /\ p = "am" <=> h < 12
           /\ Len(mm) = 2
           /\ mm[1] \in 0..9 /\ mm[2] \in 0..9
           /\ 10 * mm[1] + mm[2] = m

\* the name for five past midnight has been generated: 12, 05, am
C15_Witness ==
    /\ pc = "named"
    /\ clock = Time(0, 5)
    /\ filename = Name(12, <<0, 5>>, "am")

\* C16: the clock is read once per backup run, and that one reading names
\* both the timestamp directory and the archive, so that the time in the
\* archive name always agrees with the directory name to the minute.
C16_SingleReading ==
    ArchiveStarted => zip_time = timestamp

\* a frame is on screen
InFrame == pc = "menu"

\* C17: in every frame the cursor row lies inside the visible window,
\* scroll_offset <= current_row < scroll_offset + max_visible, for every
\* N >= 1, every terminal height and every cursor reachable by keys.
C17_CursorVisible ==
    (InFrame /\ N >= 1)
        => /\ scroll_offset <= current_row
           /\ current_row < scroll_offset + max_visible

\* C18: in every frame with max_visible >= 1 and the cursor in [0, N-1],
\* 0 <= scroll_offset <= max(0, N - max_visible), and the visible window
\* holds min(N, max_visible) items.
C18_OffsetClamped ==
    (InFrame /\ max_visible >= 1 /\ current_row \in 0..(N - 1))
        => /\ 0 <= scroll_offset
           /\ scroll_offset <= Max(0, N - max_visible)
           /\ Len(VisibleDatabases(databases.items, scroll_offset, max_visible))
                = Min(N, max_visible)

\* C19: checkbox_menu is entered only with N >= 1 names, an empty lister
\* result or list-only mode ending the run with status 0 first, and
\* backup_databases is entered only with a non-empty list.
C19_NeverEmpty ==
    [][/\ pc' = "menu" => N' >= 1
       /\ pc' = "backup" =>
            /\ selected_databases'.tag = "list"
            /\ selected_databases'.items # <<>>
       /\ (pc = "listed" /\ (databases.items = <<>> \/ args_list))
            => (pc' = "exit" /\ exit_status' = 0 /\ selected = <<>>)
       /\ "No databases selected for backup." \notin Range(out')]_vars

\* the dump loop runs over a proper part of the list, chosen in the menu
C19_Witness ==
    /\ pc = "dump"
    /\ args_databases = None
    /\ selected_databases.items # <<>>
    /\ Len(selected_databases.items) < N

\* the step handles a key of K and the selector shows its next frame
Handled(K) == pc = "menu" /\ pc' = "menu" /\ key' \in K

\* C20: the keys of the selector have disjoint effects.  The navigation
\* keys (up/k, down/j, page-up, page-down) leave the selection array
\* unchanged; toggle, select-all and select-none leave the cursor
\* unchanged; toggle inverts selected[cursor] and changes no other entry;
\* an unrecognised key leaves both cursor and selection unchanged; and the
\* selection array has length N in every frame.
C20_DisjointEffects ==
    [][/\ Handled(UpKeys \cup DownKeys \cup PageUpKeys \cup PageDownKeys)
            => selected' = selected
       /\ Handled(ToggleKeys \cup SelectAllKeys \cup SelectNoneKeys)
            => current_row' = current_row
       /\ Handled(ToggleKeys)
            => LET at == PyIndex(current_row, Len(selected))
               IN /\ at \in 1..N
                  /\ selected'[at] = ~selected[at]
                  /\ \A i \in 1..N : i # at => selected'[i] = selected[i]
       /\ Handled(OtherKeys)
            => (selected' = selected /\ current_row' = current_row)
       /\ pc' = "menu" => Len(selected') = N']_vars

\* the toggle key has just cleared the middle entry of three and left the
\* other two and the cursor as they were
C20_Witness ==
    /\ pc = "menu"
    /\ key \in ToggleKeys
    /\ N = 3
    /\ current_row = 1
    /\ prev_selected = <<TRUE, TRUE, TRUE>>
    /\ selected = <<TRUE, FALSE, TRUE>>

=============================================================================
